---------------------------- MODULE Spec2Model ----------------------------
(***************************************************************************)
(* Model of src/chatbot.py: the DataEngine retrieval functions, the mock   *)
(* LLMClient rule table, Chatbot.process_message with its cross-turn       *)
(* context, the MetricsTracker counters and the interactive read loop.     *)
(*                                                                         *)
(* Text is modelled as TLA+ strings, character by character: Python's      *)
(* `in`, lower(), strip(), split(), re.sub and the regular expressions     *)
(* built from the user's words are computed, not assumed.  A DataFrame is  *)
(* the sequence of the row labels (positions in df) it holds, in order.    *)
(* Latencies (wall-clock floats) are left out: no counter depends on them. *)
(***************************************************************************)
EXTENDS Integers, Sequences, FiniteSets, TLC

(***************************************************************************)
(* Bounds of the model.                                                    *)
(***************************************************************************)
MaxTurns == 3

(***************************************************************************)
(* Python string primitives.  A str the code inspects is handled as its    *)
(* text: the sequence of its characters.                                   *)
(***************************************************************************)
\* F(e) with e evaluated once: the local `v = e` of the Python code
LetVal(e, F(_)) == CHOOSE r \in {F(v) : v \in {e}} : TRUE

\* the elements of a finite set of numbers in increasing order
SortedSeq(S) ==
    [k \in 1..Cardinality(S) |-> CHOOSE x \in S : Cardinality({y \in S : y <= x}) = k]

UpperChars == "ABCDEFGHIJKLMNOPQRSTUVWXYZ"
LowerChars == "abcdefghijklmnopqrstuvwxyz"
DigitChars == "0123456789_"

\* the text of a str
T(s) == [i \in 1..Len(s) |-> SubSeq(s, i, i)]

RECURSIVE StrOf(_, _, _)
StrOf(t, lo, hi) ==
    IF lo > hi THEN ""
    ELSE IF lo = hi THEN t[lo]
    ELSE LetVal((lo + hi) \div 2, LAMBDA mid : StrOf(t, lo, mid) \o StrOf(t, mid + 1, hi))
\* the str of a text
Str(t) == StrOf(t, 1, Len(t))

UpperSet == {T(UpperChars)[i] : i \in 1..Len(UpperChars)}
LowerOf == [c \in UpperSet |->
              T(LowerChars)[CHOOSE i \in 1..Len(UpperChars) : T(UpperChars)[i] = c]]
LowerChar(c) == IF c \in UpperSet THEN LowerOf[c] ELSE c

\* str.lower()
Lower(t) == [i \in 1..Len(t) |-> LowerChar(t[i])]

\* t[i:i+len(sub)] == sub
OccursAt(sub, t, i) == \A k \in 1..Len(sub) : t[i + k - 1] = sub[k]

\* Python `sub in t`
Contains(sub, t) == \E i \in 1..(Len(t) - Len(sub) + 1) : OccursAt(sub, t, i)

\* pandas str.contains(<literal>, case=False)
ContainsCI(lit, t) == Contains(Lower(lit), Lower(t))

WordChars ==
    UpperSet \cup {T(LowerChars)[i] : i \in 1..Len(LowerChars)}
             \cup {T(DigitChars)[i] : i \in 1..Len(DigitChars)}
\* \w of a str pattern: letters (of any script), digits, underscore
IsWordChar(c) == c \in WordChars \/ c = "é"
\* \s
IsSpace(c) == c \in {" ", "\t", "\n"}

\* str.strip()
Strip(t) ==
    LET keep == {i \in 1..Len(t) : ~IsSpace(t[i])}
    IN  IF keep = {} THEN << >>
        ELSE SubSeq(t, CHOOSE i \in keep : \A j \in keep : i <= j,
                       CHOOSE i \in keep : \A j \in keep : j <= i)

\* str.split(): the maximal runs of non-whitespace, in order
Split(t) ==
    LET starts == {i \in 1..Len(t) : ~IsSpace(t[i]) /\ (i = 1 \/ IsSpace(t[i - 1]))}
        ends   == {i \in 1..Len(t) : ~IsSpace(t[i]) /\ (i = Len(t) \/ IsSpace(t[i + 1]))}
    IN  [k \in 1..Cardinality(starts) |-> SubSeq(t, SortedSeq(starts)[k], SortedSeq(ends)[k])]

\* re.sub(r'[^\w\s\?\.,-]', '', t)
sanitize_chars(t) ==
    SelectSeq(t, LAMBDA c : IsWordChar(c) \/ IsSpace(c) \/ c \in {"?", ".", ",", "-"})

\* Chatbot.sanitize_input
sanitize_input(user_input) == LetVal(sanitize_chars(user_input), LAMBDA t : Strip(t))

(***************************************************************************)
(* The dataset: rows of tracxn.csv after _load_data (strings stripped).    *)
(***************************************************************************)
Row(c, l, s, b) ==
    [Company |-> c, location |-> l, primary_sector |-> s, company_background |-> b]

rOla         == Row("Ola", "Bengaluru", "Road Transport Tech", "Cab rides")
rOlaElectric == Row("Ola Electric", "Bengaluru", "Electric Vehicles", "Electric scooters")
rRazorpay    == Row("Razorpay", "Bengaluru", "Payments", "Lets shops verify and accept payments")
rPaytm       == Row("Paytm", "Noida", "Payments", "Mobile wallet")
rPaytmMumbai == Row("Paytm", "Mumbai", "Banking Tech", "Payments bank")
rPAYTM       == Row("PAYTM", "Delhi", "Payments", "Duplicate listing")
rNykaa       == Row("Nykaa", "Mumbai", "Horizontal E-Commerce", "Beauté retail")
rDelhivery   == Row("Delhivery", "Gurugram", "Logistics Tech", "Parcel delivery")

\* the datasets a session may be started on
Datasets ==
    { <<rOla, rOlaElectric, rRazorpay, rPaytm>>,
      <<rOlaElectric, rOla, rNykaa, rDelhivery>>,
      <<rPaytm, rRazorpay, rPAYTM, rPaytmMumbai>> }

\* the lines the user may type
Inputs ==
    { "What does Ola do?", "ola electric", "Tell me about Razorpay!",
      "paytm", "compare Delhivery and NYKAA",
      "which of these are in bangalore", "are they in Mumbai?",
      "which of these are near delhi", "what about these", "are they ?",
      "top fintech startups", "suggest something good", "best logistics",
      "health payments", "edtech and ecommerce", "fintech or logistics",
      "what is the", "?", "cab",
      "ol. rides", "wallets?", "Exit", "quit" }

VARIABLES
    df,                 \* DataEngine.df
    stdout_ascii,       \* the console encoding cannot encode non-ASCII text
    current_context_df, \* Chatbot.current_context_df
    metrics,            \* MetricsTracker.metrics
    turn,               \* the locals of the last loop iteration
    turns,              \* loop iterations so far
    error_prints,       \* executions of print(f"Error: {e}")
    running             \* the read loop has not hit `break`

vars == <<df, stdout_ascii, current_context_df, metrics, turn, turns, error_prints, running>>

\* DataFrame values: a pandas frame is the sequence of row labels it holds
EmptyFrame == <<>>
AllRows(d) == [i \in 1..Len(d) |-> i]
RowsWhere(d, rows, P(_)) == SelectSeq(rows, LAMBDA i : P(d[i]))

(***************************************************************************)
(* DataEngine.  d is self.df.                                              *)
(***************************************************************************)
\* Series.unique(): values in order of first appearance
Unique(vals) ==
    LET firsts == {i \in 1..Len(vals) : \A j \in 1..(i - 1) : vals[j] /= vals[i]}
    IN  [k \in 1..Cardinality(firsts) |-> vals[SortedSeq(firsts)[k]]]

CompanyColumn(d) == [i \in 1..Len(d) |-> d[i].Company]

\* the keys of the dict company_names, in insertion order (texts)
company_names_keys(d) ==
    LetVal(Unique(CompanyColumn(d)), LAMBDA names :
    LetVal([i \in 1..Len(names) |-> Lower(T(names[i]))], LAMBDA lowered :
    Unique(lowered)))

\* company_names.get(k): the last name inserted under k; <<>> is None
company_names_get(d, k) ==
    LetVal(Unique(CompanyColumn(d)), LAMBDA names :
    LetVal({i \in 1..Len(names) : Lower(T(names[i])) = k}, LAMBDA hits :
    IF hits = {} THEN << >>
    ELSE <<names[CHOOSE i \in hits : \A j \in hits : j <= i]>>))

sectors_map ==
    << [key |-> "fintech",
        sectors |-> <<"Payments", "Alternative Lending", "Banking Tech", "Investment Tech",
                      "Internet First Insurance Platforms", "Finance & Accounting Tech",
                      "Cryptocurrencies">>],
       [key |-> "logistics", sectors |-> <<"Logistics Tech", "Road Transport Tech">>],
       [key |-> "ecommerce",
        sectors |-> <<"Horizontal E-Commerce", "B2B E-Commerce", "Auto E-Commerce & Content",
                      "Online Grocery">>],
       [key |-> "edtech",
        sectors |-> <<"K-12 EdTech", "Test Preparation Tech", "Continued Learning">>],
       [key |-> "health",
        sectors |-> <<"Healthcare Booking Platforms", "Infectious Diseases", "Healthcare IT">>] >>

Range(seq) == {seq[i] : i \in 1..Len(seq)}

\* get_company_details comparing the Company column with the lowercased key
get_company_details_by_key(d, company_name_lower) ==
    LetVal(Str(company_name_lower), LAMBDA key :
    RowsWhere(d, AllRows(d), LAMBDA r : r.Company = key))

\* DataEngine.get_company_details
get_company_details(d, company_name_lower) ==
    LetVal(company_names_get(d, company_name_lower), LAMBDA real_name :
    IF real_name /= << >> /\ real_name[1] /= ""
    THEN RowsWhere(d, AllRows(d), LAMBDA r : r.Company = real_name[1])
    ELSE EmptyFrame)

\* Series.str.contains("A|B|...", case=False) for literal alternatives
location_contains(d, i, alternatives) ==
    LetVal(Lower(T(d[i].location)), LAMBDA text :
    \E a \in alternatives : Contains(Lower(T(a)), text))

\* filter_data with no pass-through: no location keyword selects nothing
filter_data_no_pass_through(d, df_subset, q) ==
    LetVal(Lower(q), LAMBDA query :
    IF Contains(T("bangalore"), query) \/ Contains(T("bengaluru"), query)
    THEN SelectSeq(df_subset, LAMBDA i : location_contains(d, i, {"Bengaluru"}))
    ELSE IF Contains(T("mumbai"), query)
    THEN SelectSeq(df_subset, LAMBDA i : location_contains(d, i, {"Mumbai"}))
    ELSE IF Contains(T("delhi"), query) \/ Contains(T("ncr"), query)
    THEN SelectSeq(df_subset, LAMBDA i : location_contains(d, i, {"Delhi", "Noida", "Gurugram"}))
    ELSE EmptyFrame)

\* DataEngine.filter_data
filter_data(d, df_subset, q) ==
    LetVal(Lower(q), LAMBDA query :
    IF Contains(T("bangalore"), query) \/ Contains(T("bengaluru"), query)
    THEN SelectSeq(df_subset, LAMBDA i : location_contains(d, i, {"Bengaluru"}))
    ELSE IF Contains(T("mumbai"), query)
    THEN SelectSeq(df_subset, LAMBDA i : location_contains(d, i, {"Mumbai"}))
    ELSE IF Contains(T("delhi"), query) \/ Contains(T("ncr"), query)
    THEN SelectSeq(df_subset, LAMBDA i : location_contains(d, i, {"Delhi", "Noida", "Gurugram"}))
    ELSE df_subset)

RECURSIVE sector_filter_from(_, _)
\* the list sector_filter after the loop over sectors_map.items()
sector_filter_from(query, k) ==
    IF k > Len(sectors_map) THEN << >>
    ELSE (IF Contains(T(sectors_map[k].key), query) THEN sectors_map[k].sectors ELSE << >>)
         \o sector_filter_from(query, k + 1)
sector_filter(query) == sector_filter_from(query, 1)

stop_words ==
    {T(w) : w \in {"what", "does", "do", "tell", "me", "about", "is", "the", "a", "an"}}

\* keywords = [w for w in query.split() if w not in stop_words]
keywords(query) == LetVal(Split(query), LAMBDA words :
                       SelectSeq(words, LAMBDA w : w \notin stop_words))

\* re.compile('|'.join(keywords)) raises re.error: of the characters that
\* survive sanitize_input only "?" (a quantifier) can make a pattern invalid:
\* "nothing to repeat" at the start of an alternative, "multiple repeat" for "???"
pattern_invalid(kws) ==
    \E i \in 1..Len(kws) : kws[i][1] = "?" \/ Contains(T("???"), kws[i])

RECURSIVE regex_match_here(_, _, _, _)
\* the alternative p, from its position i on, matches s at position j:
\* literals, "." (any character but a newline) and the quantifiers "?" and "??"
regex_match_here(p, i, s, j) ==
    IF i > Len(p) THEN TRUE
    ELSE LET opt  == i + 1 <= Len(p) /\ p[i + 1] = "?"
             lazy == opt /\ i + 2 <= Len(p) /\ p[i + 2] = "?"
             hit  == /\ j <= Len(s)
                     /\ IF p[i] = "." THEN s[j] /= "\n" ELSE s[j] = p[i]
         IN  \E next \in {IF lazy THEN i + 3 ELSE IF opt THEN i + 2 ELSE i + 1} :
                 \/ opt /\ regex_match_here(p, next, s, j)
                 \/ hit /\ \E j1 \in {j + 1} : regex_match_here(p, next, s, j1)

\* Series.str.contains('|'.join(kws), case=False) on one cell
cell_contains(kws, cell) ==
    \E text \in {Lower(cell)} : \E i \in 1..Len(kws) : \E p \in {Lower(kws[i])} :
        \E j \in 1..(Len(text) + 1) : regex_match_here(p, 1, text, j)

\* the columns of a row as strings: x.astype(str)
Cells(r) == {T(r.Company), T(r.location), T(r.primary_sector), T(r.company_background)}

\* search_broad going on to the keyword pass when the sector filter selects no row
search_broad_falling_through(d, q) ==
    LetVal(Lower(q), LAMBDA query :
    LetVal(sector_filter(query), LAMBDA sf :
    LetVal(RowsWhere(d, AllRows(d), LAMBDA r : r.primary_sector \in Range(sf)), LAMBDA by_sector :
    IF by_sector /= << >>
    THEN [raised |-> FALSE, rows |-> by_sector]
    ELSE LetVal(keywords(query), LAMBDA kws :
         IF kws /= << >>
         THEN IF pattern_invalid(kws)
              THEN [raised |-> TRUE, rows |-> EmptyFrame]
              ELSE [raised |-> FALSE,
                    rows |-> RowsWhere(d, AllRows(d),
                                       LAMBDA r : \E c \in Cells(r) : cell_contains(kws, c))]
         ELSE [raised |-> FALSE, rows |-> AllRows(d)]))))

\* DataEngine.search_broad: whether it raises, and the frame it returns
search_broad(d, q) ==
    LetVal(Lower(q), LAMBDA query :
    LetVal(sector_filter(query), LAMBDA sf :
    IF sf /= << >>
    THEN [raised |-> FALSE,
          rows |-> RowsWhere(d, AllRows(d), LAMBDA r : r.primary_sector \in Range(sf))]
    ELSE LetVal(keywords(query), LAMBDA kws :
         IF kws /= << >>
         THEN IF pattern_invalid(kws)
              THEN [raised |-> TRUE, rows |-> EmptyFrame]
              ELSE [raised |-> FALSE,
                    rows |-> RowsWhere(d, AllRows(d),
                                       LAMBDA r : \E c \in Cells(r) : cell_contains(kws, c))]
         ELSE [raised |-> FALSE, rows |-> AllRows(d)])))

HeadLimit == 5

RECURSIVE format_rows(_, _, _)
\* the loop over top_results, from its k-th record on
format_rows(d, top_results, k) ==
    IF k > Len(top_results) THEN << >>
    ELSE T("- Name: ") \o T(d[top_results[k]].Company) \o T("\n")
         \o T("  Description: ") \o T(d[top_results[k]].company_background) \o T("\n")
         \o T("  Sector: ") \o T(d[top_results[k]].primary_sector) \o T("\n")
         \o T("  Location: ") \o T(d[top_results[k]].location) \o T("\n\n")
         \o format_rows(d, top_results, k + 1)

\* DataEngine.format_results
format_results(d, rows) ==
    IF rows = EmptyFrame THEN T("No matching companies found.")
    ELSE LetVal(SubSeq(rows, 1, IF Len(rows) < HeadLimit THEN Len(rows) ELSE HeadLimit),
                LAMBDA top_results :
                    T("Found the following companies:\n") \o format_rows(d, top_results, 1))

(***************************************************************************)
(* LLMClient                                                               *)
(***************************************************************************)
ClarificationText ==
    "Could you verify which specific sector or criteria you are looking for? (e.g., Valuation, Sector, Location)"
NoMatchText == "I couldn't find any companies matching that description in the dataset."
NoneMatchText == "None of the previously listed companies match that criterion."

\* re.findall(r"Name: (.*)", context): the scan takes the first "Name: " of a
\* line, captures up to the end of that line and resumes there
findall_name(s) ==
    LetVal({i \in 1..(Len(s) - 5) : OccursAt(T("Name: "), s, i)}, LAMBDA occ :
    LetVal({i \in 1..Len(s) : s[i] = "\n"}, LAMBDA nl :
    LetVal(SortedSeq({i \in occ : \A j \in occ : j < i => \E n \in nl : j < n /\ n < i}),
           LAMBDA starts :
    [k \in 1..Len(starts) |->
        SubSeq(s, starts[k] + 6,
               IF \E n \in nl : n > starts[k]
               THEN (CHOOSE n \in nl : n > starts[k] /\ \A m \in nl : m > starts[k] => n <= m) - 1
               ELSE Len(s))])))

RECURSIVE JoinFrom(_, _, _)
JoinFrom(sep, items, k) ==
    IF k > Len(items) THEN << >>
    ELSE IF k = Len(items) THEN items[k]
    ELSE items[k] \o sep \o JoinFrom(sep, items, k + 1)
\* sep.join(items)
Join(sep, items) == JoinFrom(sep, items, 1)

\* which rule of generate_response returns
response_rule(user_query, context) ==
    LetVal(Lower(user_query), LAMBDA lower_query :
    IF /\ \E x \in {"best", "top", "good", "suggest"} : Contains(T(x), lower_query)
       /\ ~Contains(T("fintech"), lower_query)
       /\ ~Contains(T("logistics"), lower_query)
    THEN "clarification"
    ELSE IF Contains(T("No matching companies"), context) THEN "no_match"
    ELSE IF Contains(T("which of these"), lower_query) THEN "which_of_these"
    ELSE "default")

\* LLMClient.generate_response
generate_response(user_query, context) ==
    LetVal(response_rule(user_query, context), LAMBDA rule :
    CASE rule = "clarification" -> T(ClarificationText)
      [] rule = "no_match" -> T(NoMatchText)
      [] rule = "which_of_these" ->
            LetVal(findall_name(context), LAMBDA companies :
            IF companies /= << >>
            THEN T("Based on your previous query, the companies matching your criteria are: ")
                 \o Join(T(", "), companies) \o T(".")
            ELSE T(NoneMatchText))
      [] OTHER ->
            T("Here is the information I found:\n\n") \o context
            \o T("\nWould you like to know more about any of these?"))

(***************************************************************************)
(* MetricsTracker                                                          *)
(***************************************************************************)
\* MetricsTracker.log_query
log_query(m, is_clarification, is_error) ==
    [total_queries |-> m.total_queries + 1,
     clarifications_triggered |->
        m.clarifications_triggered + (IF is_clarification THEN 1 ELSE 0),
     errors |-> m.errors + (IF is_error THEN 1 ELSE 0)]

(***************************************************************************)
(* Chatbot                                                                 *)
(***************************************************************************)
NoneFrame == [is_none |-> TRUE, rows |-> EmptyFrame]
Frame(rows) == [is_none |-> FALSE, rows |-> rows]

\* the loop `for name in company_names: if name in lower_input: ... break`;
\* <<>> is None
matched_company_of(d, lower_input) ==
    LetVal(company_names_keys(d), LAMBDA keys :
    LetVal({i \in 1..Len(keys) : Contains(keys[i], lower_input)}, LAMBDA hits :
    IF hits = {} THEN << >>
    ELSE <<keys[CHOOSE i \in hits : \A j \in hits : i <= j]>>))

\* which branch of the if/elif/else of Step 2 runs
branch_of(matched_company, is_follow_up, ctx) ==
    IF matched_company /= << >> /\ matched_company[1] /= << >> THEN "entity"
    ELSE IF is_follow_up /\ ~ctx.is_none THEN "follow_up"
    ELSE "broad"

\* what the entity branch leaves in current_context_df
context_after_entity(ctx, response_df) == Frame(response_df)
\* the follow-up branch with line 230 in force: strict narrowing
context_after_follow_up_narrowing(ctx, response_df) == Frame(response_df)
\* what the follow-up branch leaves in current_context_df
context_after_follow_up(ctx, response_df) == ctx
\* the broad-search branch without the test of line 235
context_after_broad_unconditional(ctx, response_df) == Frame(response_df)
\* what the broad-search branch leaves in current_context_df
context_after_broad(ctx, response_df) ==
    IF response_df /= EmptyFrame THEN Frame(response_df) ELSE ctx

\* line 245
is_clarification_of(response) ==
    Contains(T("?"), response) /\ Contains(T("verify"), response)

\* Step 2 of process_message: whether retrieval raises, and response_df
retrieve(d, branch, matched_company, ctx, clean_input) ==
    CASE branch = "entity" ->
            [raised |-> FALSE, rows |-> get_company_details(d, matched_company[1])]
      [] branch = "follow_up" ->
            [raised |-> FALSE, rows |-> filter_data(d, ctx.rows, clean_input)]
      [] OTHER -> search_broad(d, clean_input)

\* Step 2 of process_message: what it leaves in current_context_df
context_after(branch, ctx, response_df) ==
    CASE branch = "entity" -> context_after_entity(ctx, response_df)
      [] branch = "follow_up" -> context_after_follow_up(ctx, response_df)
      [] OTHER -> context_after_broad(ctx, response_df)

\* Chatbot.process_message on the engine's frame d and the stored context ctx:
\* whether it raises, the context it leaves, the tracker.log_query calls it
\* makes (their arguments), its return value (a text) and its locals
process_message(d, user_input, ctx) ==
    LetVal(sanitize_input(T(user_input)), LAMBDA clean_input :
    LetVal(Lower(clean_input), LAMBDA lower_input :
    LetVal(matched_company_of(d, lower_input), LAMBDA matched_company :
    LetVal(Contains(T("these"), lower_input) \/ Contains(T("they"), lower_input),
           LAMBDA is_follow_up :
    LetVal(branch_of(matched_company, is_follow_up, ctx), LAMBDA branch :
    LetVal(retrieve(d, branch, matched_company, ctx, clean_input), LAMBDA retrieved :
    LetVal([clean_input |-> Str(clean_input),
            matched_company |->
                IF matched_company = << >> THEN << >> ELSE <<Str(matched_company[1])>>,
            is_follow_up |-> is_follow_up, branch |-> branch], LAMBDA locals :
    IF retrieved.raised
    THEN [raised |-> TRUE, ctx |-> ctx, log_calls |-> << >>, response |-> << >>,
          locals |-> locals @@ [response_df |-> EmptyFrame, rule |-> "none",
                                is_clarification |-> FALSE]]
    ELSE LetVal(format_results(d, retrieved.rows), LAMBDA context_str :
         LetVal(generate_response(clean_input, context_str), LAMBDA response :
         LetVal(is_clarification_of(response), LAMBDA is_clarification :
         [raised |-> FALSE, ctx |-> context_after(branch, ctx, retrieved.rows),
          log_calls |-> <<[is_clarification |-> is_clarification, is_error |-> FALSE]>>,
          response |-> response,
          locals |-> locals @@ [response_df |-> retrieved.rows,
                                rule |-> response_rule(clean_input, context_str),
                                is_clarification |-> is_clarification]]))))))))))

(***************************************************************************)
(* __main__: the read loop                                                 *)
(***************************************************************************)
AsciiChars == WordChars \cup {" ", "\n", "\t", "?", ".", ",", "-", ":", "(", ")", "'", "&", "!"}

\* str.isascii()
is_ascii(text) == \A i \in 1..Len(text) : text[i] \in AsciiChars

\* print(text) raises UnicodeEncodeError: the console cannot encode a character
print_raises(text_is_ascii) == stdout_ascii /\ ~text_is_ascii

RECURSIVE SubFrames(_)
\* the frames that select rows of a frame, in its order
SubFrames(rows) ==
    IF rows = << >> THEN { << >> }
    ELSE LET rest == SubFrames(Tail(rows))
         IN  rest \cup { <<Head(rows)>> \o r : r \in rest }

\* the values current_context_df can hold over the frame d
Contexts(d) == {NoneFrame} \cup {Frame(rows) : rows \in SubFrames(AllRows(d))}

\* line 262, evaluated once per (dataset, stored context, input line):
\* what process_message(user_in) does, and whether "Bot: <reply>" is pure ASCII
Line262 ==
    [d \in Datasets |-> [ctx \in Contexts(d) |-> [user_in \in Inputs |->
        LetVal(process_message(d, user_in, ctx), LAMBDA pm :
               [raised |-> pm.raised, ctx |-> pm.ctx, log_calls |-> pm.log_calls,
                locals |-> pm.locals,
                reply_is_ascii |-> is_ascii(T("Bot: ") \o pm.response)])]]]

\* the metrics after the tracker.log_query calls of one turn
logged(m, log_calls) ==
    IF log_calls = << >> THEN m
    ELSE log_query(m, log_calls[1].is_clarification, log_calls[1].is_error)

NoTurn ==
    [user_in |-> "", outcome |-> "none", clean_input |-> "",
     matched_company |-> << >>, is_follow_up |-> FALSE, branch |-> "none",
     response_df |-> EmptyFrame, rule |-> "none", is_clarification |-> FALSE]

Init ==
    /\ df \in Datasets
    /\ stdout_ascii \in BOOLEAN
    /\ current_context_df = NoneFrame
    /\ metrics = [total_queries |-> 0, clarifications_triggered |-> 0, errors |-> 0]
    /\ turn = NoTurn
    /\ turns = 0
    /\ error_prints = 0
    /\ running = TRUE

IsExit(user_in) == Lower(T(user_in)) \in {T("exit"), T("quit")}

\* line 261: the loop ends
Exit(user_in) ==
    /\ running /\ turns < MaxTurns
    /\ IsExit(user_in)
    /\ running' = FALSE
    /\ turns' = turns + 1
    /\ turn' = [NoTurn EXCEPT !.user_in = user_in, !.outcome = "exit"]
    /\ UNCHANGED <<df, stdout_ascii, current_context_df, metrics, error_prints>>

\* line 262 runs to its end: the reply is printed
Reply(user_in) ==
    /\ running /\ turns < MaxTurns
    /\ ~IsExit(user_in)
    /\ LET pm == Line262[df][current_context_df][user_in]
       IN  /\ ~pm.raised
           /\ ~print_raises(pm.reply_is_ascii)
           /\ current_context_df' = pm.ctx
           /\ metrics' = logged(metrics, pm.log_calls)
           /\ turn' = pm.locals @@ [user_in |-> user_in, outcome |-> "reply"]
    /\ turns' = turns + 1
    /\ UNCHANGED <<df, stdout_ascii, error_prints, running>>

\* line 262 raises, in process_message or in print: lines 263-264 print "Error: ..."
TurnError(user_in) ==
    /\ running /\ turns < MaxTurns
    /\ ~IsExit(user_in)
    /\ LET pm == Line262[df][current_context_df][user_in]
       IN  /\ pm.raised \/ print_raises(pm.reply_is_ascii)
           /\ current_context_df' = pm.ctx
           /\ metrics' = logged(metrics, pm.log_calls)
           /\ turn' = pm.locals @@ [user_in |-> user_in, outcome |-> "error"]
    /\ error_prints' = error_prints + 1
    /\ turns' = turns + 1
    /\ UNCHANGED <<df, stdout_ascii, running>>

Next ==
    \E user_in \in Inputs :
        \/ Exit(user_in)
        \/ Reply(user_in)
        \/ TurnError(user_in)

Spec == Init /\ [][Next]_vars

(***************************************************************************)
(* Properties                                                              *)
(***************************************************************************)
\* the step is one pass of the read loop that called process_message
Processed == turns' = turns + 1 /\ turn'.outcome \in {"reply", "error"}
PrevContext == current_context_df
LowerClean(t) == Lower(T(t.clean_input))
RowsOfCompany(name) == SelectSeq(AllRows(df), LAMBDA i : df[i].Company = name)
LocationKeyword(query) ==
    \E k \in {"bangalore", "bengaluru", "mumbai", "delhi", "ncr"} : Contains(T(k), query)
SectorKeys(query) ==
    {k \in 1..Len(sectors_map) : Contains(T(sectors_map[k].key), query)}
SectorsOf(query) == UNION {Range(sectors_map[k].sectors) : k \in SectorKeys(query)}
NameIn(query) == \E i \in 1..Len(df) : Contains(Lower(T(df[i].Company)), query)
FollowUpWords(query) == Contains(T("these"), query) \/ Contains(T("they"), query)

\* C1: a turn that takes the follow-up branch leaves current_context_df as it
\* was, and its output is the contextual filter of that stored set: consecutive
\* follow-ups all narrow the same anchor
C1_FollowUpKeepsAnchor ==
    [][(Processed /\ turn'.branch = "follow_up") =>
          /\ current_context_df' = PrevContext
          /\ turn'.response_df = filter_data(df, PrevContext.rows, T(turn'.clean_input))]_vars

\* a follow-up turn narrowed its output below the stored set, which it still holds
C1_Witness ==
    /\ turn.branch = "follow_up" /\ turn.outcome = "reply"
    /\ Len(turn.response_df) < Len(current_context_df.rows)

\* C2: whenever the query contains a company name of the dataset, in any case,
\* the turn takes the entity branch and returns exactly the rows of that name
C2_EveryContainedNameResolves ==
    \A i \in 1..Len(df) :
        (turn.outcome \in {"reply", "error"}
            /\ Contains(Lower(T(df[i].Company)), LowerClean(turn)))
        => /\ turn.branch = "entity"
           /\ turn.response_df = RowsOfCompany(df[i].Company)

\* C3: a logged turn increments clarifications_triggered if and only if its
\* reply came from the ambiguity rule of generate_response
C3_ClarificationIffAmbiguityRule ==
    [][(Processed /\ metrics'.total_queries = metrics.total_queries + 1) =>
          ((metrics'.clarifications_triggered = metrics.clarifications_triggered + 1)
              <=> turn'.rule = "clarification")]_vars

\* C4: the errors counter equals the number of turns that ended in an
\* "Error: ..." message, and total_queries counts every processed turn
C4_ErrorTurnsCounted ==
    /\ metrics.errors = error_prints
    /\ metrics.total_queries = turns - (IF running THEN 0 ELSE 1)

\* C5: a turn that ends in an "Error: ..." message leaves current_context_df
\* as it was, and the loop goes on
C5_FailedTurnKeepsContext ==
    [][(Processed /\ turn'.outcome = "error") =>
          (current_context_df' = PrevContext /\ running')]_vars

\* C6: a turn that takes the broad-search branch stores its result when that is
\* non-empty and leaves current_context_df as it was when it is empty
C6_BroadStoresOnlyHits ==
    [][(Processed /\ turn'.branch = "broad") =>
          current_context_df' = IF turn'.response_df /= EmptyFrame
                                THEN Frame(turn'.response_df)
                                ELSE PrevContext]_vars

\* a broad search missed and the context stored before it is still there
C6_Witness ==
    /\ turn.branch = "broad" /\ turn.outcome = "reply"
    /\ turn.response_df = EmptyFrame
    /\ ~current_context_df.is_none

\* C7: the branch of a turn follows the priority order entity match, then
\* follow-up (follow-up words and a stored context), then broad search; and a
\* follow-up query with nothing stored runs broad search and does not end in
\* an error (stated for a console that can print every reply)
C7_PriorityOrderNoError ==
    [][(Processed /\ ~stdout_ascii) =>
          /\ turn'.branch =
                IF NameIn(LowerClean(turn')) THEN "entity"
                ELSE IF FollowUpWords(LowerClean(turn')) /\ ~PrevContext.is_none
                     THEN "follow_up"
                     ELSE "broad"
          /\ (FollowUpWords(LowerClean(turn')) /\ ~NameIn(LowerClean(turn'))
                 /\ PrevContext.is_none)
             => (turn'.branch = "broad" /\ turn'.outcome /= "error")]_vars

C9_SectorShortCircuit ==
    (turn.branch = "broad" /\ SectorKeys(LowerClean(turn)) /= {})
    => /\ turn.rule /= "none"
       /\ turn.response_df =
             SelectSeq(AllRows(df),
                       LAMBDA i : df[i].primary_sector \in SectorsOf(LowerClean(turn)))

\* a query with a sector key selected no row, though one of its words occurs
\* in the dataset
C9_Witness ==
    /\ turn.branch = "broad" /\ SectorKeys(LowerClean(turn)) /= {}
    /\ turn.response_df = EmptyFrame
    /\ \E i \in 1..Len(df) : ContainsCI(T("payments"), T(df[i].primary_sector))
    /\ Contains(T("payments"), LowerClean(turn))

\* C10: current_context_df is None or holds at least one row
C10_StoredContextNonEmpty ==
    current_context_df.is_none \/ current_context_df.rows /= EmptyFrame

\* a context was stored by an entity match, then kept by a broad-search miss
C10_Witness ==
    /\ ~current_context_df.is_none
    /\ turn.branch = "broad" /\ turn.response_df = EmptyFrame
    /\ Len(current_context_df.rows) = 1

=============================================================================
